---- MODULE Spec2Model ----
(***************************************************************************)
(* A model of the x-com-bot polling loop: XComBot.__init__, XComBot.run,   *)
(* get_mentions, process_mention, generate_response, post_response and     *)
(* enforce_rate_limit (src/bot.py), ModelManager (src/model_manager.py)    *)
(* and load_config (src/x_com_bot/config.py), started by main()            *)
(* (src/run_bot.py).                                                       *)
(* Time is counted in whole seconds and kept as the differences the code   *)
(* reads: time_since_last = time.time() - last_request_time, and the time  *)
(* since the last platform call began.  Both stop counting at Horizon,     *)
(* which is above request_delay, so every comparison with request_delay is *)
(* exact.                                                                  *)
(***************************************************************************)
EXTENDS Integers, Sequences, FiniteSets, TLC

VARIABLES
    pc,                 \* position of the single thread of control
    env_seen,           \* the environment load_config read (<<>> = not kept)
    error_message,      \* the message of the ValueError that ended startup
    model_name,         \* config['model_name'], ModelManager.model_name
    check_interval,     \* config['check_interval'], XComBot.check_interval
    available_models,   \* local of XComBot.__init__
    listed,             \* what the listings of the catalog made by __init__ returned
    init_error,         \* which ValueError ended __init__ ("" = none)
    tweets_data,        \* <<tweets.data>> as get_mentions just received it
    create_tweet_args,  \* <<the arguments>> of the create_tweet call just made
    newest_first,       \* every tweets.data received so far came newest first
    highest_handled,    \* highest id handed to process_mention in earlier iterations
                        \* (kept while newest_first holds)
    last_mention_id,    \* local of run(): the cursor
    mentions,           \* local of run(): what get_mentions returned
    i,                  \* index of the for loop of run() (1-based)
    time_since_last,    \* time.time() - self.last_request_time, up to Horizon
    since_call,         \* seconds since the last platform call began, up to Horizon
    context,            \* local of process_mention (<<>> = not bound)
    response,           \* local of process_mention (<<>> = not bound)
    attempt,            \* tenacity's attempt_number of the running retried call
    op,                 \* the network operation invoked last
    outcomes,           \* results of the attempts of that invocation, in order
    waits,              \* waits slept between the attempts of that invocation
    cycle,              \* number of the current iteration of run()
    cursor_before,      \* last_mention_id when the iteration started
    since_arg,          \* since_id given to the last get_users_tweets (<<>> = not called)
    fetch_status,       \* how the last get_mentions ended
    processed,          \* per process_mention call of this iteration: id and calls made
    recent,             \* the platform calls of the last step: op, gap to the call before, limited
    rl                  \* the enforce_rate_limit of the last step: elapsed at entry, seconds slept

vars == <<pc, env_seen, error_message, model_name, check_interval,
          available_models, listed, init_error, tweets_data, create_tweet_args,
          newest_first, highest_handled, last_mention_id, mentions, i, time_since_last, since_call, context,
          response, attempt, op, outcomes, waits, cycle, cursor_before,
          since_arg, fetch_status, processed, recent, rl>>

\* what run() leaves behind from one iteration to the next, beside the cursor
lifetime == <<newest_first, highest_handled>>

----------------------------------------------------------------------------
(* Bounds of the model *)

MaxCycles == 2      \* iterations of run() are counted up to here
MaxId == 5          \* post ids are 1..MaxId
MaxBatch == 2       \* posts in one get_users_tweets response
MaxLatency == 1     \* seconds an outbound call may take, and a sleep may oversleep
Horizon == 3        \* elapsed times are counted up to here

----------------------------------------------------------------------------
(* Program constants *)

None == 0                   \* the unset cursor / since_id
request_delay == 2          \* self.request_delay = 2.0
default_check_interval == 60
stop_after_two == 3 - 1       \* a retry policy of two attempts
stop_after_attempt == 3     \* stop=stop_after_attempt(3)
wait_multiplier == 1        \* wait_exponential(multiplier=1, ...)
wait_min == 4               \* wait_exponential(min=4, ...)
wait_max == 60              \* wait_exponential(max=60)
exp_base == 2               \* tenacity's default exp_base

default_model_name == "deepseek-r1:1.5b"

----------------------------------------------------------------------------
(* Strings are sequences of characters *)

Max(a, b) == IF a >= b THEN a ELSE b
MaxOf(S) == IF S = {} THEN 0 ELSE CHOOSE m \in S : \A n \in S : n <= m

Min(a, b) == IF a <= b THEN a ELSE b

RECURSIVE Pow(_, _)
Pow(b, e) == IF e <= 0 THEN 1 ELSE b * Pow(b, e - 1)

\* Python's  sub in s
Contains(sub, s) ==
    \E k \in 1..(Len(s) - Len(sub) + 1) : SubSeq(s, k, k + Len(sub) - 1) = sub

IsDigit(c) == c \in {"0", "1", "2", "3", "4", "5", "6", "7", "8", "9"}

DigitValue(c) ==
    CASE c = "0" -> 0 [] c = "1" -> 1 [] c = "2" -> 2 [] c = "3" -> 3
      [] c = "4" -> 4 [] c = "5" -> 5 [] c = "6" -> 6 [] c = "7" -> 7
      [] c = "8" -> 8 [] c = "9" -> 9

RECURSIVE DigitsValue(_)
DigitsValue(s) ==
    IF s = <<>> THEN 0
    ELSE 10 * DigitsValue(SubSeq(s, 1, Len(s) - 1)) + DigitValue(s[Len(s)])

AllDigits(s) == s # <<>> /\ \A k \in 1..Len(s) : IsDigit(s[k])

\* Python's int(s) on the strings of the model: does it parse, and to what
IntParses(s) ==
    \/ AllDigits(s)
    \/ Len(s) >= 2 /\ s[1] \in {"-", "+"} /\ AllDigits(Tail(s))

IntValue(s) ==
    IF s[1] = "-" THEN 0 - DigitsValue(Tail(s))
    ELSE IF s[1] = "+" THEN DigitsValue(Tail(s))
    ELSE DigitsValue(s)

----------------------------------------------------------------------------
(* load_config: CHECK_INTERVAL.  An absent variable is the sequence        *)
(* <<"unset">>, a present one is <<"set", value>>.                         *)

CheckIntervalEnv ==
    { <<"unset">>,
      <<"set", <<>> >>,
      <<"set", <<"a", "b", "c">> >>,
      <<"set", <<"-", "1">> >>,
      <<"set", <<"0">> >>,
      <<"set", <<"6", "0">> >> }

load_check_interval(value) ==
    IF value[1] = "set" /\ value[2] # <<>>
    THEN IF IntParses(value[2]) THEN IntValue(value[2]) ELSE default_check_interval
    ELSE default_check_interval

required_vars ==
    << "TWITTER_API_KEY", "TWITTER_API_SECRET", "TWITTER_ACCESS_TOKEN",
       "TWITTER_ACCESS_TOKEN_SECRET", "TWITTER_BEARER_TOKEN" >>

Range(s) == {s[k] : k \in 1..Len(s)}

\* the values a required variable may have: absent, empty, a key
KeyEnv == { <<"unset">>, <<"set", "">>, <<"set", "k">> }

ModelNameEnv == { <<"unset">>, <<"set", "">>, <<"set", "gpt-x">> }

\* the environments load_config may find
Environments ==
    { [v \in Range(required_vars) \cup {"MODEL_NAME", "CHECK_INTERVAL"} |->
          IF v = "MODEL_NAME" THEN m
          ELSE IF v = "CHECK_INTERVAL" THEN c
          ELSE keys[v]] :
        keys \in [Range(required_vars) -> KeyEnv],
        m \in ModelNameEnv, c \in CheckIntervalEnv }

\* a test that takes an empty value for an absent one
is_missing_falsy(value) == value = <<"unset">> \/ value[2] = ""

\* lines 25-29: os.getenv(var) is None
is_missing(value) == value = <<"unset">>

\* lines 22-29: missing_vars, in the order of required_vars
missing_vars(env) ==
    LET Missing(v) == is_missing(env[v]) IN SelectSeq(required_vars, Missing)

\* lines 32-38
load_model_name(value) ==
    IF value[1] = "set" /\ value[2] # "" THEN value[2] ELSE default_model_name

\* sep.join(names), as the sequence of its pieces
RECURSIVE Join(_, _)
Join(names, sep) ==
    IF Len(names) <= 1 THEN names
    ELSE <<names[1], sep>> \o Join(Tail(names), sep)

\* lines 53-56: the message of the ValueError
missing_message(names) ==
    <<"Missing required environment variables: ">> \o Join(names, ", ")

----------------------------------------------------------------------------
(* The platform as the bot sees it.  A post is                             *)
(* [id, referenced_tweets, text]; a reference is [id, type].  The posts of *)
(* the platform are immutable: post k always has the same content.         *)

username == <<"b">>                     \* me.data.username

Quoted(k) == [id |-> k, type |-> "quoted"]
RepliedTo(k) == [id |-> k, type |-> "replied_to"]

PostKinds ==
    << [referenced_tweets |-> <<>>,                        text |-> <<"@", "b", " ", "y", "o">>],
       [referenced_tweets |-> <<RepliedTo(1)>>,            text |-> <<"h", "i">>],
       [referenced_tweets |-> <<Quoted(2)>>,               text |-> <<"x", "@", "b">>],
       [referenced_tweets |-> <<Quoted(1), RepliedTo(2)>>, text |-> <<"@", "b">>],
       [referenced_tweets |-> <<Quoted(2)>>,               text |-> <<"h", "i">>],
       [referenced_tweets |-> <<RepliedTo(2), RepliedTo(1)>>, text |-> <<>>] >>

Tweet(k) ==
    LET kind == PostKinds[((k - 1) % Len(PostKinds)) + 1]
    IN  [id |-> k, referenced_tweets |-> kind.referenced_tweets, text |-> kind.text]

\* the text get_tweet(id) returns for a referenced post
OriginalText(k) == IF k = 1 THEN <<"o", "n", "e">> ELSE <<"t", "w", "o">>

\* get_users_tweets(id=user_id): the posts composed by the account user_id,
\* which is get_me().data.id; so the account that composed post k of the
\* timeline read is the bot's
user_id == "me"

Author(k) == user_id

\* ids going down along the sequence: most recent first
NewestFirst(data) == \A a, b \in 1..Len(data) : a < b => data[a].id > data[b].id

\* since_id: "Only return tweets more recent than this ID"
NewerThan(since_id) ==
    {k \in 1..MaxId : since_id = None \/ k > since_id}

\* the orders a response may come in: most recent first, as the platform
\* documents, or oldest first
Ordered(s) ==
    \/ \A a, b \in 1..Len(s) : a < b => s[a] > s[b]
    \/ \A a, b \in 1..Len(s) : a < b => s[a] < s[b]

\* what get_users_tweets may hand back as tweets.data: up to MaxBatch of the
\* posts newer than since_id
Responses(since_id) ==
    { [k \in 1..Len(ids) |-> Tweet(ids[k])] :
        ids \in { s \in UNION {[1..n -> NewerThan(since_id)] : n \in 0..MaxBatch} :
                    Ordered(s) } }

----------------------------------------------------------------------------
(* get_mentions: the filter of lines 177-181 *)

HasRepliedTo(tweet) ==
    /\ tweet.referenced_tweets # <<>>
    /\ \E k \in 1..Len(tweet.referenced_tweets) :
          tweet.referenced_tweets[k].type = "replied_to"

\* a filter that wants the reply reference and the handle together
IsRelevantBoth(tweet, name) ==
    /\ HasRepliedTo(tweet)
    /\ tweet.text # <<>> /\ Contains(<<"@">> \o name, tweet.text)

IsRelevant(tweet, name) ==
    \/ HasRepliedTo(tweet)
    \/ tweet.text # <<>> /\ Contains(<<"@">> \o name, tweet.text)

relevant_tweets(data, name) ==
    LET Keep(tweet) == IsRelevant(tweet, name) IN SelectSeq(data, Keep)

----------------------------------------------------------------------------
(* Time *)

Latencies == 0..MaxLatency

\* d more seconds on an elapsed time t
After(t, d) == Min(t + d, Horizon)

\* enforce_rate_limit sleeping the elapsed time instead of the remainder
rate_limit_sleep_elapsed(t) == IF t < request_delay THEN t ELSE 0

\* enforce_rate_limit, entered with time_since_last = t: the seconds it asks
\* time.sleep for (lines 123-125)
rate_limit_sleep(t) == IF t < request_delay THEN request_delay - t ELSE 0

\* a backoff that starts at the minimum and doubles from there
wait_doubling(n) == Min(wait_min * Pow(exp_base, n - 1), wait_max)

\* wait_exponential(multiplier=1, min=4, max=60) after failed attempt n
wait_exponential(n) ==
    Max(Max(0, wait_min), Min(wait_multiplier * Pow(exp_base, n - 1), wait_max))

\* time.sleep refusing a zero as well
sleep_raises_zero(secs) == secs <= 0

\* time.sleep(secs) raises ValueError on a negative length
sleep_raises(secs) == secs < 0

\* the cursor taken from the last mention of the batch instead of the first
next_cursor_last(ms, cursor) == IF ms # <<>> THEN ms[Len(ms)].id ELSE cursor

\* a cursor that is never moved
next_cursor_never(ms, cursor) == cursor

\* a cursor that an empty batch unsets
next_cursor_reset(ms, cursor) == IF ms # <<>> THEN ms[1].id ELSE None

\* run(), lines 232-233
next_cursor(ms, cursor) == IF ms # <<>> THEN ms[1].id ELSE cursor

\* the record of one platform call: the seconds since the call before it
\* began, and whether enforce_rate_limit ran in between
Called(what, gap, lim) == [op |-> what, gap |-> gap, limited |-> lim]

\* the record of one enforce_rate_limit
Limited(t, slept) == [elapsed |-> t, slept |-> slept]

Result(ok) == IF ok THEN "ok" ELSE "fail"

----------------------------------------------------------------------------

Catalogs ==
    { <<>>, <<"llama3", "mistral">>, <<"llama3", default_model_name>> }

Init ==
    /\ pc = "load_config"
    /\ env_seen = <<>>
    /\ error_message = <<>>
    /\ model_name = ""
    /\ check_interval = default_check_interval
    /\ available_models = <<>>
    /\ listed = <<>>
    /\ init_error = ""
    /\ tweets_data = <<>>
    /\ create_tweet_args = <<>>
    /\ newest_first = TRUE
    /\ highest_handled = None
    /\ last_mention_id = None
    /\ mentions = <<>>
    /\ i = 0
    /\ time_since_last = Horizon
    /\ since_call = Horizon
    /\ context = <<>>
    /\ response = <<>>
    /\ attempt = 0
    /\ op = ""
    /\ outcomes = <<>>
    /\ waits = <<>>
    /\ cycle = 0
    /\ cursor_before = None
    /\ since_arg = <<>>
    /\ fetch_status = "none"
    /\ processed = <<>>
    /\ recent = <<>>
    /\ rl = <<>>

\* main() line 15: load_config().  The optional variables are read before
\* the check of missing_vars, which raises out of main()
LoadConfig ==
    /\ pc = "load_config"
    /\ \E env \in Environments :
         LET missing == missing_vars(env) IN
         /\ env_seen' = env
         /\ model_name' = load_model_name(env["MODEL_NAME"])
         /\ check_interval' = load_check_interval(env["CHECK_INTERVAL"])
         /\ IF missing # <<>>
            THEN pc' = "config_failed" /\ error_message' = missing_message(missing)
            ELSE pc' = "list_models" /\ error_message' = error_message
    /\ UNCHANGED <<lifetime, available_models, listed, init_error, tweets_data, create_tweet_args,
                   last_mention_id, mentions,
                   i, time_since_last, since_call, context, response, attempt, op,
                   outcomes, waits, cycle, cursor_before, since_arg, fetch_status,
                   processed, recent, rl>>

\* list_available_models: one GET /api/tags; [] on an error or a non-200 status
list_available_models(ok, catalog) == IF ok THEN catalog ELSE <<>>

\* bot.py lines 42-45 (the text is in Russian: Ollama is not running or
\* cannot be reached)
unreachable_message == <<"Ollama is not running or is unavailable">>

\* model_manager.py lines 25-28 (no models available: make sure Ollama is
\* running and at least one model is installed)
no_models_message ==
    <<"No models available. Make sure Ollama is running and a model is installed">>

\* a message that leaves the available models out
not_found_message_bare(name, models) ==
    <<"Model ", name, " not found. Available models: ">>

\* model_manager.py lines 31-36
not_found_message(name, models) ==
    <<"Model ", name, " not found. Available models: ">> \o Join(models, ", ")

\* XComBot.__init__, lines 40-45; env_seen is kept only for the state
\* load_config ended in
ListModels ==
    /\ pc = "list_models"
    /\ \E ok \in BOOLEAN, catalog \in Catalogs :
         LET models == list_available_models(ok, catalog) IN
         /\ available_models' = models
         /\ listed' = <<models>>
         /\ op' = "list_available_models"
         /\ outcomes' = <<Result(ok)>>
         /\ IF models = <<>>
            THEN /\ pc' = "init_failed"
                 /\ init_error' = "unreachable"
                 /\ error_message' = unreachable_message
            ELSE /\ pc' = "ensure_model"
                 /\ init_error' = init_error
                 /\ error_message' = error_message
    /\ env_seen' = <<>>
    /\ UNCHANGED <<lifetime, model_name, check_interval, tweets_data, create_tweet_args, last_mention_id, mentions, i,
                   time_since_last, since_call, context, response, attempt, waits,
                   cycle, cursor_before, since_arg, fetch_status, processed,
                   recent, rl>>

\* ModelManager.ensure_model_exists, which lists the catalog again, then
\* XComBot.__init__ lines 62-64 (last_request_time = 0, long before now)
EnsureModelExists ==
    /\ pc = "ensure_model"
    /\ \E ok \in BOOLEAN, catalog \in Catalogs :
         LET models == list_available_models(ok, catalog) IN
         /\ listed' = Append(listed, models)
         /\ op' = "list_available_models"
         /\ outcomes' = <<Result(ok)>>
         /\ IF models = <<>>
            THEN /\ pc' = "init_failed"
                 /\ init_error' = "no_models"
                 /\ error_message' = no_models_message
            ELSE IF model_name \notin Range(models)
            THEN /\ pc' = "init_failed"
                 /\ init_error' = "not_found"
                 /\ error_message' = not_found_message(model_name, models)
            ELSE /\ pc' = "ready"
                 /\ init_error' = init_error
                 /\ error_message' = error_message
    /\ time_since_last' = Horizon
    /\ UNCHANGED <<lifetime, env_seen, model_name, check_interval, available_models, tweets_data, create_tweet_args,
                   last_mention_id, mentions, i, since_call, context, response,
                   attempt, waits, cycle, cursor_before, since_arg, fetch_status,
                   processed, recent, rl>>

\* main() lines 19-22: the bot is constructed, bot.run() starts
\* (last_mention_id = None); the locals of __init__ are gone
StartRun ==
    /\ pc = "ready"
    /\ pc' = "fetch"
    /\ last_mention_id' = None
    /\ cycle' = 1
    /\ available_models' = <<>>
    /\ listed' = <<>>
    /\ UNCHANGED <<lifetime, env_seen, error_message, model_name, check_interval, init_error,
                   tweets_data, create_tweet_args,
                   mentions, i, time_since_last, since_call, context, response,
                   attempt, op, outcomes, waits, cursor_before, since_arg,
                   fetch_status, processed, recent, rl>>

----------------------------------------------------------------------------
(* run(): one iteration *)

\* what time.sleep may take when asked for secs seconds
Sleeps(secs) == {secs + over : over \in Latencies}

\* enforce_rate_limit entered with time_since_last = t: the seconds it may
\* spend (time.sleep is called only when t < request_delay)
RateLimitSleeps(t) ==
    IF rate_limit_sleep(t) > 0 THEN Sleeps(rate_limit_sleep(t)) ELSE {0}

\* get_mentions ends: slept in enforce_rate_limit, d1 in get_me, d2 in
\* get_users_tweets (not called when get_me failed), data received from it,
\* got returned to run()
FetchEnds(slept, me_ok, tweets_ok, d1, d2, data, got) ==
    /\ tweets_data' = data
    /\ newest_first' = (newest_first /\ (data # <<>> => NewestFirst(data[1])))
    /\ rl' = <<Limited(time_since_last, slept)>>
    /\ time_since_last' = After(0, d1 + d2)
    /\ since_call' = IF me_ok THEN After(0, d2) ELSE After(0, d1)
    /\ recent' = IF me_ok
                 THEN <<Called("get_me", After(since_call, slept), TRUE),
                        Called("get_users_tweets", After(0, d1), FALSE)>>
                 ELSE <<Called("get_me", After(since_call, slept), TRUE)>>
    /\ since_arg' = IF me_ok THEN <<last_mention_id>> ELSE <<>>
    /\ fetch_status' = IF me_ok /\ tweets_ok THEN "ok" ELSE "error"
    /\ op' = "get_mentions"
    /\ outcomes' = <<Result(me_ok /\ tweets_ok)>>
    /\ mentions' = got
    /\ last_mention_id' = next_cursor(got, last_mention_id)
    /\ IF got # <<>> THEN pc' = "process" /\ i' = 1
                     ELSE pc' = "sleep" /\ i' = 0

\* get_mentions handing back a post it kept from before on an error
on_fetch_error_stale == <<Tweet(2)>>

\* get_mentions, lines 186-188: what it returns when a call raised
on_fetch_error == <<>>

\* get_mentions, lines 173-184: what it returns for tweets.data
get_mentions_result(data) ==
    IF data = <<>> THEN <<>> ELSE relevant_tweets(data, username)

\* lines 230-233: get_mentions(since_id=last_mention_id), then the cursor
Fetch ==
    /\ pc = "fetch"
    /\ \E slept \in RateLimitSleeps(time_since_last), d1 \in Latencies :
         \/ FetchEnds(slept, FALSE, FALSE, d1, 0, <<>>, on_fetch_error)
         \/ \E d2 \in Latencies :
               FetchEnds(slept, TRUE, FALSE, d1, d2, <<>>, on_fetch_error)
         \/ \E d2 \in Latencies, data \in Responses(last_mention_id) :
               FetchEnds(slept, TRUE, TRUE, d1, d2, <<data>>, get_mentions_result(data))
    /\ cursor_before' = last_mention_id
    /\ highest_handled' = IF newest_first' THEN highest_handled ELSE None
    /\ processed' = <<>>
    /\ waits' = <<>>
    /\ UNCHANGED <<env_seen, error_message, model_name, listed,
                   check_interval, available_models, init_error, create_tweet_args,
                   context, response, attempt, cycle>>

\* the iteration is over and the next one begins: what the finished one
\* left (its batch, the records of its calls) is dead, and the ids it handed
\* to process_mention count as handed before
IterationOver ==
    /\ mentions' = <<>>
    /\ i' = 0
    /\ op' = ""
    /\ outcomes' = <<>>
    /\ waits' = <<>>
    /\ since_arg' = <<>>
    /\ fetch_status' = "none"
    /\ processed' = <<>>
    /\ cursor_before' = last_mention_id
    /\ highest_handled' =
         IF newest_first
         THEN Max(highest_handled, MaxOf({processed[k].id : k \in 1..Len(processed)}))
         ELSE None

\* time.sleep(secs) of run() returns and the loop goes round, or raises
SleepEnds(secs, raised) ==
    IF sleep_raises(secs)
    THEN /\ pc' = raised
         /\ UNCHANGED <<time_since_last, since_call, cycle, mentions, i, op,
                        outcomes, waits, since_arg, fetch_status, processed,
                        cursor_before, highest_handled>>
    ELSE /\ pc' = "fetch"
         /\ \E slept \in Sleeps(secs) :
              /\ time_since_last' = After(time_since_last, slept)
              /\ since_call' = After(since_call, slept)
         /\ cycle' = Min(cycle + 1, MaxCycles)
         /\ IterationOver

\* time.sleep(check_interval) at line 238
Sleep ==
    /\ pc = "sleep"
    /\ SleepEnds(check_interval, "except")
    /\ recent' = <<>>
    /\ rl' = <<>>
    /\ tweets_data' = <<>>
    /\ create_tweet_args' = <<>>
    /\ UNCHANGED <<newest_first, env_seen, error_message, model_name, listed,
                   check_interval, available_models, init_error, last_mention_id,
                   context, response, attempt>>

\* lines 240-242: the handler of the loop body, sleeping again
Except ==
    /\ pc = "except"
    /\ SleepEnds(check_interval, "escaped")
    /\ recent' = <<>>
    /\ rl' = <<>>
    /\ UNCHANGED <<newest_first, env_seen, error_message, model_name, listed,
                   check_interval, available_models, init_error, tweets_data,
                   create_tweet_args, last_mention_id, context, response, attempt>>

----------------------------------------------------------------------------
(* process_mention *)

\* the loop stopping at any reference, whatever its type
reply_refs_any_type(tweet) == tweet.referenced_tweets

\* the references the for loop of lines 200-201 stops at: those of type
\* replied_to, in order (the loop takes the first)
reply_refs(tweet) ==
    LET IsReply(ref) == ref.type = "replied_to"
    IN  SelectSeq(tweet.referenced_tweets, IsReply)

\* a prompt that leaves the original post out
PromptWithoutContext(ctx, query) == [context |-> <<>>, query |-> query]

\* lines 101-107: the prompt embeds context and query
Prompt(ctx, query) == [context |-> ctx, query |-> query]

\* what the inference endpoint answers to a prompt
Completion(prompt) == <<[answer_to |-> prompt]>>

Note(log, call) ==
    [log EXCEPT ![Len(log)].calls = log[Len(log)].calls \cup {call}]

\* process_mention returns: the for loop of line 235 goes on
NextMention ==
    /\ context' = <<>>
    /\ response' = <<>>
    /\ attempt' = 0
    /\ IF i < Len(mentions) THEN pc' = "process" /\ i' = i + 1
                            ELSE pc' = "sleep" /\ i' = i

\* the failure leaving process_mention and ending the for loop of run()
MentionFailedAborts ==
    /\ context' = <<>>
    /\ response' = <<>>
    /\ attempt' = 0
    /\ pc' = "sleep"
    /\ i' = i

\* lines 219-220: the handler of process_mention logs, and it returns
MentionFailed == NextMention

\* tenacity stopping one attempt late
StopsLate(n) == n > stop_after_attempt

\* tenacity: after failed attempt n, stop (and raise) or sleep and go again
Stops(n) == n >= stop_after_attempt

\* a loop going through the batch from its end
for_mention_reversed(batch, k) == batch[Len(batch) + 1 - k]

\* line 235: the mention the k-th turn of `for mention in mentions` takes
for_mention(batch, k) == batch[k]

\* lines 197-213: the reference check and get_tweet
ProcessMention ==
    /\ pc = "process"
    /\ LET mention == for_mention(mentions, i)
           refs == reply_refs(mention)
           started == Append(processed, [id |-> mention.id, calls |-> {}])
       IN
       IF refs = <<>>
       THEN /\ processed' = started
            /\ NextMention
            /\ recent' = <<>>
            /\ UNCHANGED <<time_since_last, since_call, op, outcomes>>
       ELSE \E ok \in BOOLEAN, d \in Latencies :
            /\ processed' = Note(started, "get_tweet")
            /\ recent' = <<Called("get_tweet", since_call, FALSE)>>
            /\ time_since_last' = After(time_since_last, d)
            /\ since_call' = After(0, d)
            /\ op' = "get_tweet"
            /\ outcomes' = <<Result(ok)>>
            /\ IF ok
               THEN /\ context' = OriginalText(refs[1].id)
                    /\ pc' = "generate"
                    /\ attempt' = 1
                    /\ UNCHANGED <<response, i>>
               ELSE MentionFailed
    /\ waits' = <<>>
    /\ rl' = <<>>
    /\ tweets_data' = <<>>
    /\ create_tweet_args' = <<>>
    /\ UNCHANGED <<lifetime, env_seen, error_message, model_name, listed,
                   check_interval, available_models, init_error, last_mention_id,
                   mentions, cycle, cursor_before, since_arg, fetch_status>>

\* the seconds attempt n of a retried call may take when the call itself
\* takes d: tenacity sleeps wait_exponential(n) when it goes on
AttemptTakes(n, ok, d) ==
    IF ok \/ Stops(n) THEN {d} ELSE {d + w : w \in Sleeps(wait_exponential(n))}

\* the waits of the running invocation after attempt n
WaitsAfter(n, ok) ==
    LET before == IF n = 1 THEN <<>> ELSE waits
    IN  IF ok \/ Stops(n) THEN before ELSE Append(before, wait_exponential(n))

\* line 216: one attempt of generate_response (POST /api/generate) and, when
\* it fails and tenacity goes on, the wait before the next
Generate ==
    /\ pc = "generate"
    /\ \E ok \in BOOLEAN :
         /\ \E spent \in UNION {AttemptTakes(attempt, ok, d) : d \in Latencies} :
              /\ time_since_last' = After(time_since_last, spent)
              /\ since_call' = After(since_call, spent)
         /\ op' = "generate_response"
         /\ outcomes' = Append(IF attempt = 1 THEN <<>> ELSE outcomes, Result(ok))
         /\ waits' = WaitsAfter(attempt, ok)
         /\ processed' = Note(processed, "generate")
         /\ IF ok
            THEN /\ response' = Completion(Prompt(context, for_mention(mentions, i).text))
                 /\ pc' = "post"
                 /\ attempt' = 1
                 /\ UNCHANGED <<context, i>>
            ELSE IF Stops(attempt)
            THEN MentionFailed
            ELSE /\ pc' = "generate"
                 /\ attempt' = attempt + 1
                 /\ UNCHANGED <<context, response, i>>
    /\ recent' = <<>>
    /\ rl' = <<>>
    /\ UNCHANGED <<lifetime, env_seen, error_message, model_name, listed,
                   check_interval, available_models, init_error, tweets_data, create_tweet_args, last_mention_id,
                   mentions, cycle, cursor_before, since_arg, fetch_status>>

\* lines 137-140: client.create_tweet(text=response, in_reply_to_tweet_id=reply_to_id)
create_tweet_call(text, reply_to_id) ==
    [text |-> text, in_reply_to_tweet_id |-> reply_to_id]

\* line 217: one attempt of post_response (enforce_rate_limit, create_tweet)
\* and, when it fails and tenacity goes on, the wait before the next
Post ==
    /\ pc = "post"
    /\ \E ok \in BOOLEAN :
         /\ \E slept \in RateLimitSleeps(time_since_last) :
              /\ rl' = <<Limited(time_since_last, slept)>>
              /\ recent' = <<Called("create_tweet", After(since_call, slept), TRUE)>>
         /\ \E spent \in UNION {AttemptTakes(attempt, ok, d) : d \in Latencies} :
              /\ time_since_last' = After(0, spent)
              /\ since_call' = After(0, spent)
         /\ op' = "post_response"
         /\ outcomes' = Append(IF attempt = 1 THEN <<>> ELSE outcomes, Result(ok))
         /\ waits' = WaitsAfter(attempt, ok)
         /\ processed' = Note(processed, "create_tweet")
         /\ create_tweet_args' =
              <<create_tweet_call(response, for_mention(mentions, i).id)>>
         /\ IF ok
            THEN NextMention
            ELSE IF Stops(attempt)
            THEN MentionFailed
            ELSE /\ pc' = "post"
                 /\ attempt' = attempt + 1
                 /\ UNCHANGED <<context, response, i>>
    /\ UNCHANGED <<lifetime, env_seen, error_message, model_name, listed,
                   check_interval, available_models, init_error, tweets_data, last_mention_id,
                   mentions, cycle, cursor_before, since_arg, fetch_status>>

----------------------------------------------------------------------------

Next ==
    \/ LoadConfig
    \/ ListModels
    \/ EnsureModelExists
    \/ StartRun
    \/ Fetch
    \/ ProcessMention
    \/ Generate
    \/ Post
    \/ Sleep
    \/ Except

Spec == Init /\ [][Next]_vars

\* the one thread of control goes on: every outbound call and every sleep
\* returns or raises in finite time
FairSpec == Spec /\ WF_vars(Next)

----------------------------------------------------------------------------
(* Properties *)

\* get_mentions of the current iteration has returned
Fetched == pc \in {"process", "generate", "post", "sleep", "except", "escaped"}

\* the batch of the current iteration has been gone through
BatchDone == pc \in {"sleep", "except", "escaped"}

NoReplyReference(tweet) ==
    \A k \in 1..Len(tweet.referenced_tweets) :
        tweet.referenced_tweets[k].type # "replied_to"

Last(s) == s[Len(s)]

\* a retried call has failed an attempt and tenacity is going to make another
Retrying == pc \in {"generate", "post"} /\ attempt > 1

\* C1: once get_mentions has returned in an iteration of run(), the cursor
\* is the id of the first mention returned when there is one and is what it
\* was when the iteration began otherwise; the since_id handed to the
\* platform is the cursor the iteration began with, which is unset in the
\* first iteration.
C1_CursorIsFirstMention ==
    Fetched =>
        /\ mentions # <<>> => last_mention_id = mentions[1].id
        /\ mentions = <<>> => last_mention_id = cursor_before
        /\ since_arg # <<>> => since_arg[1] = cursor_before
        /\ cycle = 1 => cursor_before = None

\* C1 witness: a second iteration fetched with the cursor of the first and
\* got two mentions, the first of which is not the most recent.
C1_Witness ==
    /\ pc = "sleep"
    /\ cycle = 2
    /\ cursor_before # None
    /\ since_arg = <<cursor_before>>
    /\ Len(mentions) = 2
    /\ mentions[1].id < mentions[2].id
    /\ last_mention_id = mentions[1].id

\* C2: a mention with no reference of type replied_to gets no generate call
\* and no create-reply call (and no fetch of a referenced post), also when
\* it is relevant only through the "@" + username match.
C2_NoReplyWithoutReference ==
    \A k \in 1..Len(processed) :
        NoReplyReference(mentions[k]) => processed[k].calls = {}

\* C2 witness: a mention that only quotes another post, relevant through
\* the username match, has been processed.
C2_Witness ==
    /\ BatchDone
    /\ \E k \in 1..Len(processed) :
          /\ mentions[k].referenced_tweets # <<>>
          /\ NoReplyReference(mentions[k])
          /\ Contains(<<"@">> \o username, mentions[k].text)
          /\ processed[k].calls = {}

\* C3: an invocation of generate_response makes at most 3 attempts, every
\* attempt before the last failed, a success ends it with the text bound
\* for posting, and it fails (the error reaching process_mention, which
\* posts nothing) only after exactly 3 failed attempts.
C3_GenerateThreeAttempts ==
    op = "generate_response" =>
        /\ Len(outcomes) <= 3
        /\ \A k \in 1..(Len(outcomes) - 1) : outcomes[k] = "fail"
        /\ Last(outcomes) = "ok" =>
              /\ pc = "post"
              /\ response = Completion(Prompt(context, mentions[i].text))
        /\ Last(outcomes) = "fail" /\ Len(outcomes) < 3 =>
              pc = "generate" /\ attempt = Len(outcomes) + 1
        /\ Last(outcomes) = "fail" /\ Len(outcomes) = 3 =>
              /\ pc \notin {"generate", "post"}
              /\ response = <<>>
              /\ "create_tweet" \notin Last(processed).calls

\* C3 witness: the endpoint failed twice and succeeded on the third attempt.
C3_Witness ==
    /\ op = "generate_response"
    /\ outcomes = <<"fail", "fail", "ok">>
    /\ pc = "post"
    /\ response # <<>>

\* C4: once run() has started, no exception escapes it.
C4_NothingEscapesRun == pc # "escaped"

\* C5: process_mention is invoked for the mentions of the batch in order,
\* whatever failed on the way: while the batch is gone through the mentions
\* processed are the first i, and once it is done they are all of them.
C5_BatchGoesOn ==
    /\ Fetched =>
          /\ Len(processed) <= Len(mentions)
          /\ \A k \in 1..Len(processed) : processed[k].id = mentions[k].id
    /\ pc \in {"generate", "post"} => Len(processed) = i
    /\ pc = "process" => Len(processed) = i - 1
    /\ BatchDone => Len(processed) = Len(mentions)

\* C5 witness: the first mention of a batch failed at get_tweet, and the
\* second was processed up to create_tweet.
C5_Witness ==
    /\ pc = "sleep"
    /\ Len(processed) = 2
    /\ processed[1].calls = {"get_tweet"}
    /\ "create_tweet" \in processed[2].calls

\* C6: when get_me or get_users_tweets raised, get_mentions returned an
\* empty list, and the iteration does nothing: no mention is processed, the
\* only outbound calls are those of get_mentions, the cursor stays, and the
\* loop is at (or past) its sleep.
C6_FetchErrorIsNoOp ==
    fetch_status = "error" =>
        /\ mentions = <<>>
        /\ processed = <<>>
        /\ last_mention_id = cursor_before
        /\ pc \in {"sleep", "except", "escaped", "fetch"}
        /\ \A k \in 1..Len(recent) : recent[k].op \in {"get_me", "get_users_tweets"}

\* C6 witness: a fetch failed in an iteration that began with the cursor set.
C6_Witness ==
    /\ fetch_status = "error"
    /\ pc = "sleep"
    /\ cycle = 2
    /\ cursor_before # None
    /\ since_arg # <<>>

\* C7: enforce_rate_limit records its timestamp at least request_delay after
\* the one recorded before: entered sooner, it sleeps at least the
\* remainder; entered request_delay or more after, it does not sleep.
C7_RateLimitDelay ==
    \A k \in 1..Len(rl) :
        /\ rl[k].elapsed + rl[k].slept >= 2
        /\ rl[k].elapsed >= 2 => rl[k].slept = 0

\* C7 witness: enforce_rate_limit was entered right after the timestamp of
\* the invocation before and slept the whole delay.
C7_Witness == rl = <<[elapsed |-> 0, slept |-> 2]>>

\* C8: every platform call is preceded by its own enforce_rate_limit and
\* begins at least request_delay after the platform call before it.
C8_PlatformCallsSpaced ==
    \A k \in 1..Len(recent) : recent[k].limited /\ recent[k].gap >= 2

C10_WaitsDouble ==
    \A k \in 1..Len(waits) : waits[k] = 4 * Pow(2, k - 1) /\ waits[k] <= 60

\* C10: a retried call (generate_response, post_response) waits 4 seconds
\* after its 1st failed attempt and 4 seconds after its 2nd: the
\* exponential 2^(n-1) is below the minimum of 4 for both; no wait exceeds
\* 60, and there are at most two waits.
C10_WaitsAreFloor ==
    /\ Len(waits) <= 2
    /\ \A k \in 1..Len(waits) : waits[k] = 4 /\ waits[k] <= 60
    /\ Retrying => Len(waits) = attempt - 1

\* C10 witness: a call has failed twice and waited twice.
C10_Witness ==
    /\ Retrying
    /\ attempt = 3
    /\ waits = <<4, 4>>

----------------------------------------------------------------------------
(* Startup *)

InitEnded == pc \in {"init_failed", "ready"}

\* the model names a 'not found' message lists
ListedNames(message) == Range(SubSeq(message, 4, Len(message))) \ {", "}

Absent == {v \in Range(required_vars) : env_seen[v] = <<"unset">>}

\* the variable names a 'missing variables' message holds
MessageNames(message) == Range(Tail(message)) \ {", "}

\* C12: load_config fails if and only if some required variable is absent,
\* and then its message names exactly the absent variables; MODEL_NAME and
\* CHECK_INTERVAL, whatever their value, neither cause the failure nor appear
\* in the message.
C12_MissingExactlyAbsent ==
    env_seen # <<>> =>
        /\ pc \in {"config_failed", "list_models"}
        /\ pc = "config_failed" <=> Absent # {}
        /\ pc = "config_failed" =>
               /\ error_message[1] = "Missing required environment variables: "
               /\ MessageNames(error_message) = Absent
               /\ MessageNames(error_message) \cap {"MODEL_NAME", "CHECK_INTERVAL"} = {}
        /\ pc = "list_models" => error_message = <<>>

\* two variables absent, one empty, CHECK_INTERVAL unparsable
C12_Witness ==
    /\ pc = "config_failed"
    /\ env_seen # <<>>
    /\ Absent = {"TWITTER_API_SECRET", "TWITTER_BEARER_TOKEN"}
    /\ env_seen["TWITTER_API_KEY"] = <<"set", "">>
    /\ env_seen["CHECK_INTERVAL"] = <<"set", <<"a", "b", "c">> >>
    /\ env_seen["MODEL_NAME"] = <<"set", "">>
    /\ error_message = <<"Missing required environment variables: ",
                         "TWITTER_API_SECRET", ", ", "TWITTER_BEARER_TOKEN">>

----------------------------------------------------------------------------
(* The filter of get_mentions *)

\* a post with a replied_to reference, or with "@b" (the handle of the bot
\* account) in its text
Qualifies(tweet) ==
    \/ \E k \in 1..Len(tweet.referenced_tweets) :
           tweet.referenced_tweets[k].type = "replied_to"
    \/ \E k \in 1..(Len(tweet.text) - 1) :
           tweet.text[k] = "@" /\ tweet.text[k + 1] = "b"

\* kept is a subsequence of data: some strictly increasing choice of
\* positions of data gives kept
IsSubsequence(kept, data) ==
    \E at \in [1..Len(kept) -> 1..Len(data)] :
        /\ \A a, b \in 1..Len(kept) : a < b => at[a] < at[b]
        /\ \A a \in 1..Len(kept) : kept[a] = data[at[a]]

\* C13: what get_mentions returns is the subsequence, in the order received,
\* of the fetched posts that have a replied_to reference or the handle in
\* their text: every kept post qualifies and every qualifying post is kept.
C13_FilterIsExact ==
    tweets_data # <<>> =>
        LET data == tweets_data[1] IN
        /\ IsSubsequence(mentions, data)
        /\ \A a \in 1..Len(mentions) : Qualifies(mentions[a])
        /\ Len(mentions) = Cardinality({k \in 1..Len(data) : Qualifies(data[k])})

\* a quote without the handle is dropped, a quote with the handle is kept
C13_Witness ==
    /\ tweets_data # <<>>
    /\ Len(tweets_data[1]) = 2
    /\ tweets_data[1][1].id = 5 /\ tweets_data[1][2].id = 3
    /\ Len(mentions) = 1 /\ mentions[1].id = 3

\* a reply without the handle and a mention without a reference are both kept,
\* newest last
C13_WitnessBoth ==
    /\ tweets_data # <<>>
    /\ Len(mentions) = 2
    /\ mentions[1].id = 1 /\ mentions[2].id = 2

----------------------------------------------------------------------------
(* The order of the outbound calls *)

\* C14: the mentions of a batch are processed one after the other in the
\* order returned: a step of process_mention makes its calls for the mention
\* at the current position, which is the last one started, and leaves the
\* calls of the mentions before it as they are; the sleep of the iteration is
\* reached only with every mention of the batch gone through, and a fetch
\* begins only after it.
C14_Sequential ==
    [][ /\ pc \in {"process", "generate", "post"} =>
              LET n == Len(processed') IN
              /\ n = i /\ n \in {Len(processed), Len(processed) + 1}
              /\ \A k \in 1..(n - 1) : processed'[k] = processed[k]
              /\ processed'[n].id = mentions[n].id
              /\ n = Len(processed) => processed[n].calls \subseteq processed'[n].calls
              /\ i' \in {i, i + 1}
        /\ pc' = "sleep" =>
              /\ Len(processed') = Len(mentions')
              /\ \A k \in 1..Len(mentions') : processed'[k].id = mentions'[k].id
        /\ pc' = "fetch" => pc \in {"ready", "sleep", "except"}
      ]_vars

\* two replies in one batch, the first given up after generation, the second
\* answered
C14_Witness ==
    /\ pc = "sleep"
    /\ Len(mentions) = 2 /\ Len(processed) = 2
    /\ processed[1] = [id |-> mentions[1].id, calls |-> {"get_tweet", "generate"}]
    /\ processed[2] = [id |-> mentions[2].id,
                       calls |-> {"get_tweet", "generate", "create_tweet"}]

----------------------------------------------------------------------------
(* What is posted *)

\* the first reference of type replied_to of a post that has one
FirstReplyReference(tweet) ==
    LET at == CHOOSE k \in 1..Len(tweet.referenced_tweets) :
                  /\ tweet.referenced_tweets[k].type = "replied_to"
                  /\ \A j \in 1..(k - 1) : tweet.referenced_tweets[j].type # "replied_to"
    IN  tweet.referenced_tweets[at]

\* C15: every create_tweet call is made for a mention m of the current batch
\* that has a replied_to reference, after the referenced post was fetched and
\* a text generated for m; it is addressed to m.id and carries the answer of
\* the endpoint to the prompt made of the text of the post m's first
\* replied_to reference names and of m.text.
C15_ReplyIsTheGeneratedAnswer ==
    create_tweet_args # <<>> =>
        LET call == create_tweet_args[1]
            m == mentions[Len(processed)]
        IN  /\ ~NoReplyReference(m)
            /\ Last(processed).id = m.id
            /\ Last(processed).calls = {"get_tweet", "generate", "create_tweet"}
            /\ call.in_reply_to_tweet_id = m.id
            /\ call.text =
                 <<[answer_to |->
                      [context |-> IF FirstReplyReference(m).id = 1
                                   THEN <<"o", "n", "e">> ELSE <<"t", "w", "o">>,
                       query |-> m.text]]>>

\* the reply to a post that quotes post 1 and replies to post 2
C15_Witness ==
    create_tweet_args =
        <<[text |-> <<[answer_to |->
                         [context |-> <<"t", "w", "o">>, query |-> <<"@", "b">>]]>>,
           in_reply_to_tweet_id |-> 4]>>

\* C16: no create_tweet call is addressed to a post the bot account itself
\* composed.
C16_NeverAnswersItself ==
    create_tweet_args # <<>> =>
        Author(create_tweet_args[1].in_reply_to_tweet_id) # "me"

----------------------------------------------------------------------------
(* The cursor over the iterations *)

\* C17: as long as the platform hands back only posts newer than since_id,
\* most recent first, every mention of a batch has an id above every id
\* handed to process_mention in the iterations before, and no id comes twice
\* in a batch: no id is handed to process_mention twice, whether its
\* processing failed or not.
C17_HandedOnce ==
    newest_first /\ Fetched =>
        /\ \A k \in 1..Len(mentions) : mentions[k].id > highest_handled
        /\ \A j, k \in 1..Len(mentions) : mentions[j].id = mentions[k].id => j = k
        /\ cursor_before = highest_handled

\* the second iteration got posts 4 and 3 after the first one handled post 2
C17_Witness ==
    /\ newest_first
    /\ cycle = 2 /\ pc = "process"
    /\ highest_handled = 2
    /\ Len(mentions) = 2 /\ mentions[1].id = 4 /\ mentions[2].id = 3

\* C19: the cursor never goes back: once set it is never unset, and a fetch
\* that changes it makes it greater, whatever the order of the batch and
\* whatever fails afterwards.
C19_CursorMonotonic ==
    /\ cursor_before # 0 => last_mention_id # 0
    /\ last_mention_id # cursor_before => last_mention_id > cursor_before
    /\ Fetched /\ mentions # <<>> => last_mention_id > cursor_before

\* a batch that came oldest first moved the cursor from 2 to 3, and the
\* processing of post 4 failed at get_tweet
C19_Witness ==
    /\ pc = "sleep"
    /\ cursor_before = 2 /\ last_mention_id = 3
    /\ Len(mentions) = 2 /\ mentions[1].id = 3 /\ mentions[2].id = 4
    /\ processed[2].calls = {"get_tweet"}

----------------------------------------------------------------------------
(* The loop goes on *)

\* run() has started with a check_interval that time.sleep accepts
Started == cycle >= 1 /\ check_interval >= 0

\* C18: with a non-negative check_interval and every call and sleep ending
\* in finite time, run() fetches mentions again and again and sleeps in
\* between, whatever fails; a mention costs at most one get_tweet call and
\* three attempts of generate_response and of post_response.
C18_FetchesForever ==
    /\ []<>(Started => pc = "fetch")
    /\ []<>(Started => pc = "sleep")
    /\ [](pc \in {"generate", "post"} => attempt \in 1..3)
    /\ [](op \in {"generate_response", "post_response"} => Len(outcomes) <= 3)
    /\ [](op = "get_tweet" => Len(outcomes) = 1)
    /\ [](Started => pc \in {"fetch", "process", "generate", "post", "sleep"})

\* the loop has gone round, and the only mention of its second iteration
\* was given up after three failed attempts of generate_response
C18_Witness ==
    /\ Started
    /\ cycle = 2 /\ pc = "sleep"
    /\ Len(processed) = 1 /\ processed[1].calls = {"get_tweet", "generate"}
    /\ op = "generate_response" /\ outcomes = <<"fail", "fail", "fail">>

====
